---- MODULE Spec2Model ----
(***************************************************************************)
(* Model of the LLVM obfuscation passes: Flattening, BogusControlFlow,     *)
(* OpaquePredicates, InstructionSubstitution, StringEncryption and the     *)
(* VariableSubstitution stub, applied in any order to one function of a    *)
(* module.  A function is a sequence of basic blocks in program order, a   *)
(* basic block is a sequence of instructions, and a block is named by its  *)
(* position (no pass removes or reorders blocks).                          *)
(***************************************************************************)
EXTENDS Integers, Sequences, FiniteSets, TLC

VARIABLES
    F,          \* the function body: Seq(Seq(instruction))
    attr,       \* the function's attribute: "none", "NoInline", "AlwaysInline", "Intrinsic"
    globals,    \* the module's global variables: Seq([const, hasInit, init])
    randNext,   \* position of the process generator in its stream
    randStream, \* the values the never-seeded process generator yields
    nextId,     \* next unused instruction identity
    lastPass,   \* name of the pass that ran last ("none" before any pass)
    lastRet,    \* what its runOnFunction returned
    prevF,      \* the function body as the last pass found it
    prevGlobals,\* the globals as the last pass found them
    prevRand,   \* randNext as the last pass found it
    origF,      \* the function body before any pass
    origGlobals,\* the globals before any pass
    passes,     \* names of the passes run so far, in order
    substLog,   \* substitutions of the last InstructionSubstitution run:
                \* Seq([op, old, x, y, result])
    crashed,    \* the process died inside a pass
    hung,       \* the last pass never returned
    config_,    \* ConfigParser::config_: a map from key to value
    lastCall    \* the last ConfigParser call and what it returned

vars == << F, attr, globals, randNext, randStream, nextId, lastPass, lastRet,
           prevF, prevGlobals, prevRand, origF, origGlobals, passes,
           substLog, crashed, hung, config_, lastCall >>

(***************************************************************************)
(* Bounds of the model.                                                    *)
(***************************************************************************)
MaxPasses == 2      \* passes applied to the function in one behaviour
W == 2              \* integer width in bits of the arithmetic that is checked
Period == 2         \* length of the modelled rand() stream (it repeats)
MaxSteps == 40      \* instructions one execution of the function may take
MaxVisits == 40     \* blocks one injection loop may visit before it is
                    \* taken not to terminate

(***************************************************************************)
(* Program constants.                                                      *)
(***************************************************************************)
XorKey == 66            \* 0x42
BogusThreshold == 50
OpaqueThreshold == 30
BogusMinSize == 3
OpaqueMinSize == 2
RandModulus == 100
FlattenMinSize == 1
OpaqueConst == 42

Pow2W == 2 ^ W
Wrap(n) == n % Pow2W
Words == 0 .. (Pow2W - 1)

(***************************************************************************)
(* Values and instructions of the IR.                                      *)
(***************************************************************************)
NoVal == [k |-> "none", n |-> 0]
Const(n) == [k |-> "const", n |-> n]
Arg(i) == [k |-> "arg", n |-> i]
Reg(id) == [k |-> "reg", n |-> id]
GV(g) == [k |-> "global", n |-> g]

Inst(op, id, x, y, t, f, fn, cases) ==
    [op |-> op, id |-> id, x |-> x, y |-> y, t |-> t, f |-> f, fn |-> fn,
     cases |-> cases]

BinOp(op, id, x, y) == Inst(op, id, x, y, 0, 0, "", << >>)
Nop(id) == Inst("nop", id, NoVal, NoVal, 0, 0, "", << >>)
Phi(id) == Inst("phi", id, NoVal, NoVal, 0, 0, "", << >>)
LandingPad(id) == Inst("landingpad", id, NoVal, NoVal, 0, 0, "", << >>)
Gep(id, g) == Inst("gep", id, GV(g), NoVal, 0, 0, "", << >>)
Call(id, fn, x, y) == Inst("call", id, x, y, 0, 0, fn, << >>)
Alloca(id) == Inst("alloca", id, NoVal, NoVal, 0, 0, "", << >>)
Store(id, v, p) == Inst("store", id, v, p, 0, 0, "", << >>)
Load(id, p) == Inst("load", id, p, NoVal, 0, 0, "", << >>)
Br(id, t) == Inst("br", id, NoVal, NoVal, t, 0, "", << >>)
CondBr(id, c, t, f) == Inst("condbr", id, c, NoVal, t, f, "", << >>)
Switch(id, v, d, cases) == Inst("switch", id, v, NoVal, d, 0, "", cases)
Ret(id, v) == Inst("ret", id, v, NoVal, 0, 0, "", << >>)

TermOps == {"br", "condbr", "switch", "ret"}
ArithOps == {"add", "sub", "mul", "div", "shl"}
isTerminator(I) == I.op \in TermOps

\* Instruction::getParent()/BasicBlock list primitives
InsertBefore(BB, p, ins) == SubSeq(BB, 1, p - 1) \o ins \o SubSeq(BB, p, Len(BB))
EraseAt(BB, p) == SubSeq(BB, 1, p - 1) \o SubSeq(BB, p + 1, Len(BB))

\* BasicBlock::getTerminator(): the last instruction when it is a
\* terminator, null (0) otherwise
getTerminator(BB) ==
    IF Len(BB) > 0 /\ isTerminator(BB[Len(BB)]) THEN Len(BB) ELSE 0

(***************************************************************************)
(* Arithmetic at width W.                                                  *)
(***************************************************************************)
ArithFn(op, a, b) ==
    CASE op = "add" -> Wrap(a + b)
      [] op = "sub" -> Wrap(a - b)
      [] op = "mul" -> Wrap(a * b)
      [] op = "shl" -> Wrap(a * (2 ^ (b % W)))
      [] op = "div" -> IF Wrap(b) = 0 THEN 0 ELSE Wrap(a) \div Wrap(b)

\* IRBuilder<>::Create{Add,Sub,Mul,Shl,Neg,ICmpEQ}: with the default
\* ConstantFolder an operation on two constants yields a constant and
\* inserts no instruction
CreateBinOp(op, id, x, y) ==
    IF x.k = "const" /\ y.k = "const"
    THEN [val |-> Const(ArithFn(op, x.n, y.n)), ins |-> << >>, id |-> id]
    ELSE [val |-> Reg(id), ins |-> << BinOp(op, id, x, y) >>, id |-> id + 1]

CreateNeg(id, x) == CreateBinOp("sub", id, Const(0), x)

CreateICmpEQ(id, x, y) ==
    IF x.k = "const" /\ y.k = "const"
    THEN [val |-> Const(IF x.n = y.n THEN 1 ELSE 0), ins |-> << >>, id |-> id]
    ELSE [val |-> Reg(id), ins |-> << BinOp("icmp", id, x, y) >>, id |-> id + 1]

(***************************************************************************)
(* The process-wide generator behind rand(): never seeded by the passes,   *)
(* so its stream is fixed for the process and every draw advances it.      *)
(***************************************************************************)
rand(rn, stream) ==
    [val |-> stream[(rn % Period) + 1], next |-> (rn + 1) % Period]

(***************************************************************************)
(* Eligibility predicates of the utility library.                          *)
(***************************************************************************)
isDeclaration(Fn) == Len(Fn) = 0

shouldObfuscateFunction(Fn, a) ==
    IF isDeclaration(Fn) \/ a = "Intrinsic" THEN FALSE
    ELSE IF a = "NoInline" \/ a = "AlwaysInline" THEN FALSE
    ELSE TRUE

isSafeToReplace(I) ==
    IF I.op = "phi" \/ I.op = "landingpad" THEN FALSE ELSE TRUE

(***************************************************************************)
(* Flattening.                                                             *)
(***************************************************************************)
\* IRBuilder<> builder(&F.getEntryBlock()) inserts at the end of the block
createStateVariable(Fn, id) ==
    [fn |-> [Fn EXCEPT ![1] = @ \o << Alloca(id),
                                      Store(id + 1, Const(0), Reg(id)) >>],
     stateVar |-> id, id |-> id + 2]

\* the dispatcher inserted before the entry block instead of appended
createDispatcherBlock_AtFront(Fn, stateVar, id) ==
    [fn |-> << << Load(id, Reg(stateVar)),
                  Switch(id + 1, Reg(id), 0, << >>) >> >> \o Fn,
     dispatcher |-> 1, id |-> id + 2]

\* BasicBlock::Create(ctx, "dispatcher", &F) appends the block to F;
\* CreateSwitch(state, nullptr, F.size()): the default destination is null
createDispatcherBlock(Fn, stateVar, id) ==
    [fn |-> Append(Fn, << Load(id, Reg(stateVar)),
                          Switch(id + 1, Reg(id), 0, << >>) >>),
     dispatcher |-> Len(Fn) + 1, id |-> id + 2]

\* the vector of blocks other than the entry and the dispatcher
flatBlocks(Fn, dispatcher) ==
    SelectSeq([i \in 1 .. Len(Fn) |-> i],
              LAMBDA i : i # 1 /\ i # dispatcher)

\* state numbers counted from 0, the loop index i itself
stateNumber_FromZero(k) == k - 1

\* the state number block blocks[k] stores (k is 1-based, the code's i + 1)
stateNumber(k) == k

\* one iteration of the first loop, on block b with state number n
restructureBlock(BB, n, dispatcher, stateVar, id) ==
    LET t == getTerminator(BB)
        BB1 == InsertBefore(BB, t, << Store(id, Const(n), Reg(stateVar)),
                                      Br(id + 1, dispatcher) >>)
    IN EraseAt(BB1, getTerminator(BB1))

RECURSIVE restructureLoop(_, _, _, _, _, _)
restructureLoop(Fn, blocks, k, dispatcher, stateVar, id) ==
    IF k > Len(blocks) THEN [fn |-> Fn, id |-> id, crash |-> FALSE]
    ELSE IF getTerminator(Fn[blocks[k]]) = 0
         THEN [fn |-> Fn, id |-> id, crash |-> TRUE]
         ELSE restructureLoop(
                [Fn EXCEPT ![blocks[k]] =
                    restructureBlock(@, stateNumber(k), dispatcher, stateVar, id)],
                blocks, k + 1, dispatcher, stateVar, id + 2)

\* the second loop: one case per collected block
addCases(Fn, blocks, dispatcher) ==
    LET sw == getTerminator(Fn[dispatcher])
    IN [Fn EXCEPT ![dispatcher][sw].cases =
            @ \o [k \in 1 .. Len(blocks) |-> << stateNumber(k), blocks[k] >>]]

restructureBasicBlocks(Fn, dispatcher, stateVar, id) ==
    LET blocks == flatBlocks(Fn, dispatcher)
        r == restructureLoop(Fn, blocks, 1, dispatcher, stateVar, id)
    IN IF r.crash THEN r
       ELSE [fn |-> addCases(r.fn, blocks, dispatcher), id |-> r.id,
             crash |-> FALSE]

FlatteningRunOnFunction(Fn, id) ==
    IF Len(Fn) <= FlattenMinSize
    THEN [fn |-> Fn, id |-> id, ret |-> FALSE, crash |-> FALSE]
    ELSE LET sv == createStateVariable(Fn, id)
             d == createDispatcherBlock(sv.fn, sv.stateVar, sv.id)
             r == restructureBasicBlocks(d.fn, d.dispatcher, sv.stateVar, d.id)
         IN [fn |-> r.fn, id |-> r.id, ret |-> TRUE, crash |-> r.crash]

(***************************************************************************)
(* BogusControlFlow.                                                       *)
(***************************************************************************)
\* shouldAddBogusControlFlow without the test on the block's size
shouldAddBogusControlFlow_NoSizeTest(Fn, i, rn, stream) ==
    IF i = 1
    THEN [yes |-> FALSE, rand |-> rn]
    ELSE LET d == rand(rn, stream)
         IN [yes |-> (d.val % RandModulus) < BogusThreshold, rand |-> d.next]

\* the draw is made only when the block passes the structural test
shouldAddBogusControlFlow(Fn, i, rn, stream) ==
    IF i = 1 \/ Len(Fn[i]) < BogusMinSize
    THEN [yes |-> FALSE, rand |-> rn]
    ELSE LET d == rand(rn, stream)
         IN [yes |-> (d.val % RandModulus) < BogusThreshold, rand |-> d.next]

\* both builders are positioned at the end of their block
addBogusControlFlow(Fn, i, id) ==
    LET bogusBB == Len(Fn) + 1
        fake1 == CreateBinOp("add", id, Const(0), Const(0))
        fake2 == CreateBinOp("mul", fake1.id, fake1.val, Const(1))
        br == Br(fake2.id, i)
        condition == CreateICmpEQ(fake2.id + 1, Const(0), Const(0))
        condBr == CondBr(condition.id, condition.val, bogusBB, i)
        Fn1 == Append(Fn, fake1.ins \o fake2.ins \o << br >>)
    IN [fn |-> [Fn1 EXCEPT ![i] = @ \o condition.ins \o << condBr >>],
        id |-> condition.id + 1]

\* for (auto &BB : F): blocks appended during the loop are visited too
RECURSIVE bogusLoop(_, _, _, _, _)
bogusLoop(Fn, i, id, rn, stream) ==
    IF i > Len(Fn)
    THEN [fn |-> Fn, id |-> id, rand |-> rn, modified |-> FALSE,
          hung |-> FALSE]
    ELSE IF i > MaxVisits
    THEN [fn |-> Fn, id |-> id, rand |-> rn, modified |-> FALSE,
          hung |-> TRUE]
    ELSE LET d == shouldAddBogusControlFlow(Fn, i, rn, stream)
         IN IF d.yes
            THEN LET a == addBogusControlFlow(Fn, i, id)
                     r == bogusLoop(a.fn, i + 1, a.id, d.rand, stream)
                 IN [r EXCEPT !.modified = TRUE]
            ELSE bogusLoop(Fn, i + 1, id, d.rand, stream)

BogusRunOnFunction(Fn, id, rn, stream) ==
    IF isDeclaration(Fn) \/ Len(Fn) < 2
    THEN [fn |-> Fn, id |-> id, rand |-> rn, modified |-> FALSE,
          hung |-> FALSE]
    ELSE bogusLoop(Fn, 1, id, rn, stream)

(***************************************************************************)
(* OpaquePredicates.                                                       *)
(***************************************************************************)
\* shouldAddOpaquePredicate without the entry-block exclusion
shouldAddOpaquePredicate_NoEntryCheck(Fn, i, rn, stream) ==
    IF Len(Fn[i]) < OpaqueMinSize
    THEN [yes |-> FALSE, rand |-> rn]
    ELSE LET d == rand(rn, stream)
         IN [yes |-> (d.val % RandModulus) < OpaqueThreshold, rand |-> d.next]

shouldAddOpaquePredicate(Fn, i, rn, stream) ==
    IF i = 1 \/ Len(Fn[i]) < OpaqueMinSize
    THEN [yes |-> FALSE, rand |-> rn]
    ELSE LET d == rand(rn, stream)
         IN [yes |-> (d.val % RandModulus) < OpaqueThreshold, rand |-> d.next]

addOpaquePredicate(Fn, i, id) ==
    LET fakeBB == Len(Fn) + 1
        fake1 == CreateBinOp("add", id, Const(0), Const(0))
        fake2 == CreateBinOp("mul", fake1.id, fake1.val, Const(1))
        br == Br(fake2.id, i)
        condition == CreateICmpEQ(fake2.id + 1, Const(OpaqueConst),
                                  Const(OpaqueConst))
        condBr == CondBr(condition.id, condition.val, i, fakeBB)
        Fn1 == Append(Fn, fake1.ins \o fake2.ins \o << br >>)
    IN [fn |-> [Fn1 EXCEPT ![i] = @ \o condition.ins \o << condBr >>],
        id |-> condition.id + 1]

RECURSIVE opaqueLoop(_, _, _, _, _)
opaqueLoop(Fn, i, id, rn, stream) ==
    IF i > Len(Fn)
    THEN [fn |-> Fn, id |-> id, rand |-> rn, modified |-> FALSE,
          hung |-> FALSE]
    ELSE IF i > MaxVisits
    THEN [fn |-> Fn, id |-> id, rand |-> rn, modified |-> FALSE,
          hung |-> TRUE]
    ELSE LET d == shouldAddOpaquePredicate(Fn, i, rn, stream)
         IN IF d.yes
            THEN LET a == addOpaquePredicate(Fn, i, id)
                     r == opaqueLoop(a.fn, i + 1, a.id, d.rand, stream)
                 IN [r EXCEPT !.modified = TRUE]
            ELSE opaqueLoop(Fn, i + 1, id, d.rand, stream)

OpaqueRunOnFunction(Fn, id, rn, stream) == opaqueLoop(Fn, 1, id, rn, stream)

(***************************************************************************)
(* InstructionSubstitution.                                                *)
(***************************************************************************)
shouldSubstitute(I) ==
    I.op = "add" \/ I.op = "sub" \/ I.op = "mul" \/ I.op = "div"

\* Value::replaceAllUsesWith over the function
replaceAllUsesWith(Fn, id, v) ==
    [b \in 1 .. Len(Fn) |->
        [p \in 1 .. Len(Fn[b]) |->
            [Fn[b][p] EXCEPT !.x = IF @ = Reg(id) THEN v ELSE @,
                             !.y = IF @ = Reg(id) THEN v ELSE @]]]

\* a replacement sequence: the instructions of first followed by those of
\* last, whose value the uses are redirected to
sequenceOf(first, last) ==
    [ins |-> first.ins \o last.ins, val |-> last.val, id |-> last.id,
     erased |-> TRUE]

noReplacement(id) == [ins |-> << >>, val |-> NoVal, id |-> id, erased |-> FALSE]

\* replacementFor with the negation of the second operand left out
replacementFor_NoNeg(I, id) ==
    CASE I.op = "add" ->
            sequenceOf(noReplacement(id), CreateBinOp("sub", id, I.x, I.y))
      [] I.op = "sub" ->
            sequenceOf(noReplacement(id), CreateBinOp("add", id, I.x, I.y))
      [] I.op = "mul" ->
            LET shifted == CreateBinOp("shl", id, I.x, Const(1))
            IN sequenceOf(shifted,
                          CreateBinOp("add", shifted.id, shifted.val, I.x))
      [] OTHER -> noReplacement(id)

\* the replacement sequence built in front of I: its instructions, the
\* value the uses are redirected to, and the next unused identity
replacementFor(I, id) ==
    CASE I.op = "add" ->
            LET negB == CreateNeg(id, I.y)
            IN sequenceOf(negB, CreateBinOp("sub", negB.id, I.x, negB.val))
      [] I.op = "sub" ->
            LET negB == CreateNeg(id, I.y)
            IN sequenceOf(negB, CreateBinOp("add", negB.id, I.x, negB.val))
      [] I.op = "mul" ->
            LET shifted == CreateBinOp("shl", id, I.x, Const(1))
            IN sequenceOf(shifted,
                          CreateBinOp("add", shifted.id, shifted.val, I.x))
      [] OTHER -> noReplacement(id)

\* the replacement r put in front of the instruction I at position p of
\* block b, the uses of I redirected to it, and I erased
insertReplacement(Fn, b, p, I, r) ==
    IF ~r.erased
    THEN [fn |-> Fn, id |-> r.id, erased |-> FALSE, added |-> 0,
          entry |-> << >>]
    ELSE [fn |-> [replaceAllUsesWith(
                     [Fn EXCEPT ![b] = InsertBefore(@, p, r.ins)], I.id, r.val)
                    EXCEPT ![b] = EraseAt(@, p + Len(r.ins))],
          id |-> r.id, erased |-> TRUE, added |-> Len(r.ins),
          entry |-> << [op |-> I.op, old |-> I.id, x |-> I.x, y |-> I.y,
                        result |-> r.val] >>]

\* substituteInstruction on the instruction at position p of block b
substituteInstruction(Fn, b, p, id) ==
    insertReplacement(Fn, b, p, Fn[b][p], replacementFor(Fn[b][p], id))

\* the loop state after a substitution s at the current position
afterSubstitution(st, s, ub) ==
    [fn |-> s.fn, b |-> st.b,
     p |-> IF s.erased THEN st.p + s.added ELSE st.p + 1,
     id |-> s.id, modified |-> TRUE,
     crash |-> s.erased /\ ub = "crash",
     log |-> st.log \o s.entry]

\* The two loops of runOnFunction, as a walk of the loop state st =
\* [fn, b, p, id, modified, crash, log] (block b, position p).  After
\* eraseFromParent() the loop increments an iterator to the erased
\* instruction, which is undefined: ub = "next" is the build where the stale
\* link still leads to the following instruction, ub = "crash" the one
\* where the process dies.
substStep(st, ub) ==
    IF st.p > Len(st.fn[st.b]) THEN [st EXCEPT !.b = @ + 1, !.p = 1]
    ELSE IF ~shouldSubstitute(st.fn[st.b][st.p]) THEN [st EXCEPT !.p = @ + 1]
    ELSE afterSubstitution(
            st, substituteInstruction(st.fn, st.b, st.p, st.id), ub)

RECURSIVE substLoop(_, _)
substLoop(st, ub) ==
    IF st.crash \/ st.b > Len(st.fn) THEN st
    ELSE substLoop(substStep(st, ub), ub)

InstSubRunOnFunction(Fn, id, log, ub) ==
    substLoop([fn |-> Fn, b |-> 1, p |-> 1, id |-> id, modified |-> FALSE,
               crash |-> FALSE, log |-> log], ub)

(***************************************************************************)
(* StringEncryption.                                                       *)
(***************************************************************************)
RECURSIVE XorBits(_, _, _)
XorBits(a, b, n) ==
    IF n = 0 THEN 0
    ELSE (((a % 2) + (b % 2)) % 2) + 2 * XorBits(a \div 2, b \div 2, n - 1)

ByteXor(a, b) == XorBits(a, b, 8)

RECURSIVE Concat(_)
Concat(ss) == IF ss = << >> THEN << >> ELSE Head(ss) \o Concat(Tail(ss))

\* the instructions of the function in iteration order
allInsts(Fn) == Concat(Fn)

isStringFunction(I) ==
    I.fn = "printf" \/ I.fn = "puts" \/ I.fn = "strlen" \/
    I.fn = "strcpy" \/ I.fn = "strcmp"

\* the instruction defining a register, as a sequence of 0 or 1 elements
defOf(Fn, v) ==
    IF v.k = "reg" THEN SelectSeq(allInsts(Fn), LAMBDA J : J.id = v.n)
    ELSE << >>

\* dyn_cast<GetElementPtrInst>(val) whose pointer operand is a global:
\* the global's index, 0 when the casts fail
gepGlobal(Fn, v) ==
    LET d == defOf(Fn, v)
    IN IF d # << >> /\ d[1].op = "gep" /\ d[1].x.k = "global"
       THEN d[1].x.n ELSE 0

isStringLiteral(Fn, G, v) ==
    LET g == gepGlobal(Fn, v)
    IN g # 0 /\ G[g].const /\ G[g].hasInit

createEncryptedString(original) ==
    [i \in 1 .. Len(original) |-> ByteXor(original[i], XorKey)]

encryptStringArgument(Fn, G, v) ==
    LET g == gepGlobal(Fn, v)
    IN IF g # 0 THEN [G EXCEPT ![g].init = createEncryptedString(@)] ELSE G

\* the argument operands of a call, in order
argOperands(I) == SelectSeq(<< I.x, I.y >>, LAMBDA v : v.k # "none")

RECURSIVE encryptArgs(_, _, _, _)
encryptArgs(Fn, G, args, i) ==
    IF i > Len(args) THEN [g |-> G, modified |-> FALSE]
    ELSE IF isStringLiteral(Fn, G, args[i])
         THEN [encryptArgs(Fn, encryptStringArgument(Fn, G, args[i]), args, i + 1)
                 EXCEPT !.modified = TRUE]
         ELSE encryptArgs(Fn, G, args, i + 1)

RECURSIVE stringLoop(_, _, _, _)
stringLoop(Fn, G, insts, k) ==
    IF k > Len(insts) THEN [g |-> G, modified |-> FALSE]
    ELSE IF insts[k].op = "call" /\ isStringFunction(insts[k])
         THEN LET e == encryptArgs(Fn, G, argOperands(insts[k]), 1)
                  r == stringLoop(Fn, e.g, insts, k + 1)
              IN [r EXCEPT !.modified = e.modified \/ r.modified]
         ELSE stringLoop(Fn, G, insts, k + 1)

StringEncRunOnFunction(Fn, G) == stringLoop(Fn, G, allInsts(Fn), 1)

(***************************************************************************)
(* VariableSubstitution (a stub: it changes nothing).                      *)
(***************************************************************************)
VarSubRunOnFunction(Fn) == [fn |-> Fn, ret |-> FALSE]

(***************************************************************************)
(* Execution of a function on argument values.  Instructions run in        *)
(* order; the first terminator reached transfers control.  The result      *)
(* carries the blocks entered, in order.                                   *)
(***************************************************************************)
Undef == 0 - 1

ValOf(v, env, args) ==
    CASE v.k = "const" -> v.n
      [] v.k = "arg" -> args[v.n]
      [] v.k = "reg" -> IF v.n \in DOMAIN env THEN env[v.n] ELSE Undef
      [] OTHER -> 0

\* the target a switch selects: the matching case, else the default
switchTarget(I, val) ==
    LET hit == SelectSeq(I.cases, LAMBDA c : c[1] = val)
    IN IF hit # << >> THEN hit[1][2] ELSE I.t

\* A block a pass left with an instruction after its terminator is not
\* valid IR and what runs is up to the consumer: an interpreter stops at the
\* first terminator (sem = "first"), the CFG that LLVM itself reports
\* (getTerminator, successors) is that of the last instruction (sem = "last").
ExecModes == {"first", "last"}

RECURSIVE Run(_, _, _, _, _, _, _, _, _)
Run(Fn, sem, args, b, p, env, mem, trace, fuel) ==
    IF fuel = 0 THEN [status |-> "running", val |-> 0, trace |-> trace]
    ELSE IF b < 1 \/ b > Len(Fn) \/ p > Len(Fn[b])
         THEN [status |-> "stuck", val |-> 0, trace |-> trace]
    ELSE LET I == Fn[b][p]
             x == ValOf(I.x, env, args)
             y == ValOf(I.y, env, args)
         IN CASE I.op \in ArithOps ->
                    Run(Fn, sem, args, b, p + 1,
                        (I.id :> ArithFn(I.op, x, y)) @@ env,
                        mem, trace, fuel - 1)
              [] I.op = "icmp" ->
                    Run(Fn, sem, args, b, p + 1,
                        (I.id :> (IF x = y THEN 1 ELSE 0)) @@ env,
                        mem, trace, fuel - 1)
              [] I.op = "store" ->
                    Run(Fn, sem, args, b, p + 1, env, (I.y.n :> x) @@ mem,
                        trace, fuel - 1)
              [] I.op = "load" ->
                    Run(Fn, sem, args, b, p + 1,
                        (I.id :> (IF I.x.n \in DOMAIN mem THEN mem[I.x.n]
                                  ELSE Undef)) @@ env,
                        mem, trace, fuel - 1)
              [] isTerminator(I) /\ sem = "last" /\ p < Len(Fn[b]) ->
                    Run(Fn, sem, args, b, p + 1, env, mem, trace, fuel - 1)
              [] I.op = "br" ->
                    Run(Fn, sem, args, I.t, 1, env, mem, Append(trace, I.t),
                        fuel - 1)
              [] I.op = "condbr" ->
                    LET to == IF x # 0 THEN I.t ELSE I.f
                    IN Run(Fn, sem, args, to, 1, env, mem, Append(trace, to),
                           fuel - 1)
              [] I.op = "switch" ->
                    LET to == switchTarget(I, x)
                    IN Run(Fn, sem, args, to, 1, env, mem, Append(trace, to),
                           fuel - 1)
              [] I.op = "ret" -> [status |-> "ret", val |-> x, trace |-> trace]
              [] OTHER ->
                    Run(Fn, sem, args, b, p + 1, env, mem, trace, fuel - 1)

Exec(Fn, sem, args) ==
    Run(Fn, sem, args, 1, 1, << >>, << >>, << 1 >>, MaxSteps)

ArgVectors == [1 .. 2 -> Words]

(***************************************************************************)
(* The functions the passes are run on.                                    *)
(***************************************************************************)
\* "return 42" in one block
FnRet == << << Ret(1, Const(42)) >> >>

\* one block: r = a op y; return r
FnArith1(op, y) == << << BinOp(op, 1, Arg(1), y), Ret(2, Reg(1)) >> >>

\* entry -> body; body: r = a op y; u = r + b; return u
FnArith2(op, y) ==
    << << Br(1, 2) >>,
       << BinOp(op, 2, Arg(1), y), BinOp("add", 3, Reg(2), Arg(2)),
          Ret(4, Reg(3)) >> >>

\* entry branches on a to two returning blocks
FnBranch ==
    << << CondBr(1, Arg(1), 2, 3) >>,
       << BinOp("sub", 2, Arg(1), Arg(2)), Nop(3), Ret(4, Reg(2)) >>,
       << Nop(5), Ret(6, Const(7)) >> >>

\* entry switches on a; a chain of blocks; a phi and a landing pad
FnSwitch ==
    << << Switch(1, Arg(1), 3, << << 0, 2 >>, << 1, 4 >> >>) >>,
       << Phi(2), Nop(3), Br(4, 3) >>,
       << LandingPad(5), Ret(6, Arg(2)) >>,
       << Ret(7, Const(1)) >> >>

\* one call site of a text function on global 1
FnStr1 ==
    << << Gep(1, 1), Call(2, "puts", Reg(1), NoVal), Ret(3, Const(0)) >> >>

\* two call sites on global 1, one on the non-constant global 3
FnStr2 ==
    << << Br(1, 2) >>,
       << Gep(2, 1), Call(3, "printf", Reg(2), NoVal), Gep(4, 3),
          Call(5, "puts", Reg(4), NoVal), Br(6, 3) >>,
       << Gep(7, 1), Call(8, "strlen", Reg(7), NoVal), Ret(9, Const(0)) >> >>

\* strcmp of global 1 with global 2, and an unrecognised callee on global 2
FnStr3 ==
    << << Gep(1, 1), Gep(2, 2), Call(3, "strcmp", Reg(1), Reg(2)),
          Call(4, "log_line", Reg(2), NoVal), Ret(5, Const(0)) >> >>

FnDecl == << >>

\* a function still under construction: its last block has no terminator
FnNoTerm ==
    << << Br(1, 2) >>,
       << Nop(2), Br(3, 3) >>,
       << Nop(4) >> >>

ArithForms ==
    { << "add", Arg(2) >>, << "add", Const(3) >>, << "sub", Arg(2) >>,
      << "mul", Arg(2) >>, << "mul", Const(3) >>, << "div", Arg(2) >> }

Shapes ==
    { FnRet, FnBranch, FnSwitch, FnStr1, FnStr2, FnStr3, FnDecl, FnNoTerm }
    \cup { FnArith1(a[1], a[2]) : a \in ArithForms }
    \cup { FnArith2(a[1], a[2]) : a \in ArithForms }

\* "Hi\0", "A\0" and a writable buffer
ModuleGlobals ==
    << [const |-> TRUE, hasInit |-> TRUE, init |-> << 72, 105, 0 >>],
       [const |-> TRUE, hasInit |-> TRUE, init |-> << 65, 0 >>],
       [const |-> FALSE, hasInit |-> TRUE, init |-> << 66, 0 >>] >>

Attrs == {"none", "NoInline", "AlwaysInline", "Intrinsic"}
DrawVals == {10, 40, 70}
Streams == [1 .. Period -> DrawVals]
UBOutcomes == {"next", "crash"}

maxId(Fn) ==
    LET ids == {allInsts(Fn)[k].id : k \in 1 .. Len(allInsts(Fn))}
    IN IF ids = {} THEN 0 ELSE CHOOSE m \in ids : \A n \in ids : n <= m

Init ==
    /\ F \in Shapes
    /\ attr \in Attrs
    /\ (attr = "Intrinsic") => isDeclaration(F)
    /\ globals = ModuleGlobals
    /\ randNext = 0
    /\ randStream \in Streams
    /\ nextId = maxId(F) + 1
    /\ lastPass = "none"
    /\ lastRet = FALSE
    /\ prevF = F
    /\ prevGlobals = globals
    /\ prevRand = 0
    /\ origF = F
    /\ origGlobals = globals
    /\ passes = << >>
    /\ substLog = << >>
    /\ crashed = FALSE
    /\ hung = FALSE
    /\ config_ = << >>
    /\ lastCall = [op |-> "none", ret |-> FALSE]

(***************************************************************************)
(* One action per pass: a whole runOnFunction call on the function.        *)
(***************************************************************************)
CanRun == ~crashed /\ ~hung /\ Len(passes) < MaxPasses

Recorded(name, ret, crash) ==
    /\ lastPass' = name
    /\ lastRet' = ret
    /\ crashed' = crash
    /\ prevF' = F
    /\ prevGlobals' = globals
    /\ prevRand' = randNext
    /\ passes' = Append(passes, name)
    /\ UNCHANGED << attr, randStream, origF, origGlobals, config_, lastCall >>

\* a pass that is not a loop over a growing block list always returns
Returns == hung' = FALSE

RunFlattening ==
    /\ CanRun
    /\ LET r == FlatteningRunOnFunction(F, nextId)
       IN /\ F' = r.fn
          /\ nextId' = r.id
          /\ Recorded("Flattening", r.ret, r.crash)
    /\ Returns
    /\ UNCHANGED << globals, randNext, substLog >>

RunBogusControlFlow ==
    /\ CanRun
    /\ LET r == BogusRunOnFunction(F, nextId, randNext, randStream)
       IN /\ F' = r.fn
          /\ nextId' = r.id
          /\ randNext' = r.rand
          /\ hung' = r.hung
          /\ Recorded("BogusControlFlow", r.modified, FALSE)
    /\ UNCHANGED << globals, substLog >>

RunOpaquePredicates ==
    /\ CanRun
    /\ LET r == OpaqueRunOnFunction(F, nextId, randNext, randStream)
       IN /\ F' = r.fn
          /\ nextId' = r.id
          /\ randNext' = r.rand
          /\ hung' = r.hung
          /\ Recorded("OpaquePredicates", r.modified, FALSE)
    /\ UNCHANGED << globals, substLog >>

RunInstructionSubstitution ==
    /\ CanRun
    /\ \E ub \in UBOutcomes :
         LET r == InstSubRunOnFunction(F, nextId, << >>, ub)
         IN /\ F' = r.fn
            /\ nextId' = r.id
            /\ substLog' = r.log
            /\ Recorded("InstructionSubstitution", r.modified, r.crash)
    /\ Returns
    /\ UNCHANGED << globals, randNext >>

RunStringEncryption ==
    /\ CanRun
    /\ LET r == StringEncRunOnFunction(F, globals)
       IN /\ globals' = r.g
          /\ Recorded("StringEncryption", r.modified, FALSE)
    /\ Returns
    /\ UNCHANGED << F, nextId, randNext, substLog >>

RunVariableSubstitution ==
    /\ CanRun
    /\ LET r == VarSubRunOnFunction(F)
       IN /\ F' = r.fn
          /\ Recorded("VariableSubstitution", r.ret, FALSE)
    /\ Returns
    /\ UNCHANGED << globals, nextId, randNext, substLog >>

Next ==
    \/ RunFlattening
    \/ RunBogusControlFlow
    \/ RunOpaquePredicates
    \/ RunInstructionSubstitution
    \/ RunStringEncryption
    \/ RunVariableSubstitution

Spec == Init /\ [][Next]_vars

(***************************************************************************)
(* ConfigParser: the calls a client makes on one parser object.            *)
(***************************************************************************)
PassNames == {"flattening", "bogus_control_flow"}
ConfigKeys == {"flattening.enabled", "bogus_control_flow.enabled",
               "bogus_control_flow.probability"}
ConfigValues == {"true", "false", "50"}
FileNames == {"obfuscator.json", "missing.json"}
\* the files std::ifstream can open
ReadableFiles == {"obfuscator.json"}

\* neither branch reads or writes config_
loadFromFile(cfg, filename) ==
    IF filename \notin ReadableFiles
    THEN [config |-> cfg, ret |-> FALSE]
    ELSE [config |-> cfg, ret |-> TRUE]

getValue(cfg, key, defaultValue) ==
    IF key \in DOMAIN cfg THEN cfg[key] ELSE defaultValue

setValue(cfg, key, value) == (key :> value) @@ cfg

isPassEnabled(cfg, passName) ==
    getValue(cfg, passName \o ".enabled", "false") = "true"

\* the map starts empty; std::map<std::string, std::string> config_
ConfigInit ==
    /\ F = FnRet
    /\ attr = "none"
    /\ globals = ModuleGlobals
    /\ randNext = 0
    /\ randStream = [k \in 1 .. Period |-> 10]
    /\ nextId = maxId(F) + 1
    /\ lastPass = "none"
    /\ lastRet = FALSE
    /\ prevF = F
    /\ prevGlobals = globals
    /\ prevRand = 0
    /\ origF = F
    /\ origGlobals = globals
    /\ passes = << >>
    /\ substLog = << >>
    /\ crashed = FALSE
    /\ hung = FALSE
    /\ config_ = << >>
    /\ lastCall = [op |-> "none", ret |-> FALSE]

PipelineIdle ==
    UNCHANGED << F, attr, globals, randNext, randStream, nextId, lastPass,
                 lastRet, prevF, prevGlobals, prevRand, origF, origGlobals,
                 passes, substLog, crashed, hung >>

CallSetValue ==
    /\ \E key \in ConfigKeys, value \in ConfigValues :
         config_' = setValue(config_, key, value)
    /\ lastCall' = [op |-> "setValue", ret |-> FALSE]
    /\ PipelineIdle

CallLoadFromFile ==
    /\ \E filename \in FileNames :
         LET r == loadFromFile(config_, filename)
         IN /\ config_' = r.config
            /\ lastCall' = [op |-> "loadFromFile", ret |-> r.ret]
    /\ PipelineIdle

ConfigNext ==
    \/ CallSetValue
    \/ CallLoadFromFile

ConfigSpec == ConfigInit /\ [][ConfigNext]_vars

(***************************************************************************)
(* Notions the properties share.                                           *)
(***************************************************************************)
\* the blocks of prev that the pass changed
Changed(prev, cur) ==
    {i \in 1 .. Len(prev) : i <= Len(cur) /\ cur[i] # prev[i]}

\* the blocks the pass created
Created(prev, cur) == (Len(prev) + 1) .. Len(cur)

\* the part of a trace that lies in the first n blocks
TraceIn(trace, n) == SelectSeq(trace, LAMBDA b : b <= n)

\* every block has exactly one terminator, it is the last instruction, and
\* no switch lacks a default target
WellFormedBlock(BB) ==
    /\ Len(BB) > 0
    /\ isTerminator(BB[Len(BB)])
    /\ \A p \in 1 .. (Len(BB) - 1) : ~isTerminator(BB[p])
    /\ \A p \in 1 .. Len(BB) : BB[p].op = "switch" => BB[p].t # 0

WellFormed(Fn) == \A b \in 1 .. Len(Fn) : WellFormedBlock(Fn[b])

\* the targets of a terminator
Targets(I) ==
    CASE I.op = "br" -> {I.t}
      [] I.op = "condbr" -> {I.t, I.f}
      [] I.op = "switch" -> {I.t} \cup {I.cases[k][2] : k \in 1 .. Len(I.cases)}
      [] OTHER -> {}

\* the transformed function cur behaves as prev: on every input and under
\* either reading of a malformed block it enters the blocks of prev in the
\* same order, returns when prev returns, and returns the same value
SameBehaviour(prev, cur) ==
    \A args \in ArgVectors : \A sem \in ExecModes :
        LET o == Exec(prev, sem, args)
            n == Exec(cur, sem, args)
        IN /\ TraceIn(n.trace, Len(prev)) = o.trace
           /\ o.status = "ret" => (n.status = "ret" /\ n.val = o.val)

(***************************************************************************)
(* C1: Flattening preserves behaviour: for every function with at least 2  *)
(* blocks and every input, the flattened function visits the original      *)
(* blocks in the same order as the original, returns whenever the original *)
(* does, and returns the same value.                                       *)
(***************************************************************************)
C1_FlatteningPreservesBehaviour ==
    (passes = << "Flattening" >> /\ ~crashed /\ Len(origF) >= 2)
        => SameBehaviour(origF, F)

(***************************************************************************)
(* C2: after any pass or sequence of passes on a well-formed function,     *)
(* every block has exactly one terminator, which is its last instruction,  *)
(* and no switch is left without a default target.                         *)
(***************************************************************************)
C2_StructuralValidity ==
    (WellFormed(origF) /\ ~crashed) => WellFormed(F)

(***************************************************************************)
(* C3: in every block that received a BogusControlFlow injection the guard *)
(* is always true, its false arm targets the new bogus block and its true  *)
(* arm the block's original continuation; at runtime control leaves the    *)
(* block as before the pass and the bogus block is never entered.          *)
(***************************************************************************)
\* the guard of an injected block: the instruction the pass added last
Guard(cur, i) == cur[i][Len(cur[i])]

\* the dead block made for block i: the created block that branches to i
DeadBlockOf(prev, cur, i) ==
    {j \in Created(prev, cur) : cur[j][Len(cur[j])] = Br(cur[j][Len(cur[j])].id, i)}

\* where control went from block i before the pass: a successor of its
\* terminator, or a created block that carries that terminator
Continuations(prev, cur, i) ==
    Targets(prev[i][Len(prev[i])])
    \cup {j \in Created(prev, cur) :
            cur[j][Len(cur[j])] = prev[i][Len(prev[i])]}

GuardedExit(prev, cur, i) ==
    LET g == Guard(cur, i)
    IN /\ g.op = "condbr"
       /\ g.x = Const(1)
       /\ g.f \in DeadBlockOf(prev, cur, i)
       /\ g.t \in Continuations(prev, cur, i)
       /\ g.t # i

DeadNeverEntered(prev, cur) ==
    \A args \in ArgVectors : \A sem \in ExecModes :
        LET n == Exec(cur, sem, args)
        IN /\ \A k \in 1 .. Len(n.trace) : n.trace[k] \notin Created(prev, cur)
           /\ n.trace = Exec(prev, sem, args).trace

C3_BogusBlockNeverExecutes ==
    (passes = << "BogusControlFlow" >> /\ Changed(prevF, F) # {})
        => /\ \A i \in Changed(prevF, F) : GuardedExit(prevF, F, i)
           /\ DeadNeverEntered(prevF, F)

(***************************************************************************)
(* C4: in every block that received an OpaquePredicates injection the exit *)
(* is guarded by an always-true predicate whose untaken arm is the new     *)
(* fake block and whose taken arm is the block's original continuation,    *)
(* not the block itself; the fake block is never entered at runtime and    *)
(* control reaches the same successor as before the pass.                  *)
(***************************************************************************)
C4_OpaqueGuardKeepsSuccessor ==
    (passes = << "OpaquePredicates" >> /\ Changed(prevF, F) # {})
        => /\ DeadNeverEntered(prevF, F)
           /\ \A i \in Changed(prevF, F) : GuardedExit(prevF, F, i)

(***************************************************************************)
(* The value a replacement sequence computes.                              *)
(***************************************************************************)
\* the value of v in Fn when the values in DOMAIN leaves are given
RECURSIVE EvalVal(_, _, _)
EvalVal(Fn, v, leaves) ==
    IF v \in DOMAIN leaves THEN leaves[v]
    ELSE IF v.k = "const" THEN v.n
    ELSE LET d == defOf(Fn, v)
         IN IF d = << >> \/ d[1].op \notin ArithOps THEN Undef
            ELSE ArithFn(d[1].op, EvalVal(Fn, d[1].x, leaves),
                         EvalVal(Fn, d[1].y, leaves))

\* operand values an instruction with operands x and y can see
OperandValues(e) ==
    {vv \in Words \X Words :
        /\ e.x = e.y => vv[1] = vv[2]
        /\ e.x.k = "const" => vv[1] = Wrap(e.x.n)
        /\ e.y.k = "const" => vv[2] = Wrap(e.y.n)}

\* the replacement of logged substitution e computes the operation of e
ValuePreserved(Fn, e) ==
    \A vv \in OperandValues(e) :
        EvalVal(Fn, e.result, (e.x :> vv[1]) @@ (e.y :> vv[2]))
            = ArithFn(e.op, vv[1], vv[2])

\* the replaced instruction is gone from Fn
Removed(Fn, e) ==
    \A k \in 1 .. Len(allInsts(Fn)) : allInsts(Fn)[k].id # e.old

\* every instruction of prev that read the replaced instruction now reads
\* the result of the replacement, in its own place or, when it was
\* substituted itself, in what its replacement was built from
UsesRedirected(prev, cur, log, e) ==
    \A k \in 1 .. Len(allInsts(prev)) :
        LET J == allInsts(prev)[k]
            now == SelectSeq(allInsts(cur), LAMBDA K : K.id = J.id)
            sub == SelectSeq(log, LAMBDA d : d.old = J.id)
        IN /\ J.x = Reg(e.old) =>
                \/ now # << >> /\ now[1].x = e.result
                \/ sub # << >> /\ sub[1].x = e.result
           /\ J.y = Reg(e.old) =>
                \/ now # << >> /\ now[1].y = e.result
                \/ sub # << >> /\ sub[1].y = e.result

LogEntries == {substLog[k] : k \in 1 .. Len(substLog)}

(***************************************************************************)
(* C5: InstructionSubstitution of an add (resp. sub) is value-preserving   *)
(* at every use: the original instruction is removed, every former use     *)
(* reads the result of the replacement a - (-b) (resp. a + (-b)), and for  *)
(* every pair of operand values of the width the replacement's result      *)
(* equals the original result modulo 2^W.                                  *)
(***************************************************************************)
C5_AddSubSubstitutionPreservesValue ==
    lastPass = "InstructionSubstitution" =>
        \A e \in LogEntries :
            e.op \in {"add", "sub"} =>
                /\ Removed(F, e)
                /\ UsesRedirected(prevF, F, substLog, e)
                /\ ValuePreserved(F, e)

\* an add whose result had a use was substituted by instructions
C5_Witness ==
    /\ lastPass = "InstructionSubstitution"
    /\ ~crashed
    /\ \E e \in LogEntries :
          /\ e.op = "add"
          /\ e.result.k = "reg"
          /\ \E k \in 1 .. Len(allInsts(prevF)) :
                allInsts(prevF)[k].x = Reg(e.old)
          /\ \E k \in 1 .. Len(allInsts(F)) : allInsts(F)[k].x = e.result

(***************************************************************************)
(* C6: InstructionSubstitution replaces a multiply a * b by (a << 1) + a   *)
(* only when that sequence equals a * b for all values of a; for every     *)
(* other multiply the value its uses see after the pass is a * b modulo    *)
(* 2^W.                                                                    *)
(***************************************************************************)
C6_MultiplySubstitutionGuarded ==
    lastPass = "InstructionSubstitution" =>
        \A e \in LogEntries : e.op = "mul" => ValuePreserved(F, e)

(***************************************************************************)
(* C7: after StringEncryption every constant byte array passed to a        *)
(* recognised text function stores original[i] XOR 0x42 at every index i,  *)
(* and XOR-ing again gives the original bytes, however many call sites or  *)
(* arguments reference the constant and however often the pass is run.     *)
(***************************************************************************)
\* the constant globals passed to a recognised text function in Fn
TextConstants(Fn, G) ==
    {g \in 1 .. Len(G) :
        \E k \in 1 .. Len(allInsts(Fn)) :
            LET I == allInsts(Fn)[k]
            IN /\ I.op = "call"
               /\ isStringFunction(I)
               /\ \E a \in 1 .. Len(argOperands(I)) :
                     /\ gepGlobal(Fn, argOperands(I)[a]) = g
                     /\ isStringLiteral(Fn, G, argOperands(I)[a])}

C7_StoredBytesAreXorOfOriginal ==
    lastPass = "StringEncryption" =>
        \A g \in TextConstants(F, globals) :
            \A i \in 1 .. Len(origGlobals[g].init) :
                /\ globals[g].init[i] = ByteXor(origGlobals[g].init[i], XorKey)
                /\ ByteXor(globals[g].init[i], XorKey) = origGlobals[g].init[i]

(***************************************************************************)
(* C8: with the seed fixed, a run of BogusControlFlow (or OpaquePredicates)*)
(* selects the same blocks of its input as any other run on that input,    *)
(* however many draws earlier pass invocations made in the process: the    *)
(* run that followed them selects what a run preceded by no draw selects.  *)
(***************************************************************************)
C8_InjectionDecisionsRepeatable ==
    /\ lastPass = "BogusControlFlow" =>
          Changed(prevF, F) =
              Changed(prevF, BogusRunOnFunction(prevF, maxId(prevF) + 1, 0,
                                                randStream).fn)
    /\ lastPass = "OpaquePredicates" =>
          Changed(prevF, F) =
              Changed(prevF, OpaqueRunOnFunction(prevF, maxId(prevF) + 1, 0,
                                                 randStream).fn)

(***************************************************************************)
(* C9: no pass mutates a function for which shouldObfuscateFunction is     *)
(* false, it reports not modified on it, and no pass replaces or erases an *)
(* instruction for which isSafeToReplace is false.                         *)
(***************************************************************************)
UnsafeKept(prev, cur) ==
    \A k \in 1 .. Len(allInsts(prev)) :
        ~isSafeToReplace(allInsts(prev)[k]) =>
            \E j \in 1 .. Len(allInsts(cur)) :
                allInsts(cur)[j] = allInsts(prev)[k]

C9_EligibilityRespected ==
    lastPass # "none" =>
        /\ UnsafeKept(prevF, F)
        /\ ~shouldObfuscateFunction(prevF, attr) =>
              (F = prevF /\ globals = prevGlobals /\ ~lastRet)

(***************************************************************************)
(* C10: the modified signal of the CFG passes is exact: Flattening returns *)
(* true iff at least one block was restructured, BogusControlFlow and      *)
(* OpaquePredicates return true iff at least one block received an         *)
(* injection, and on a single-block function all three return false and    *)
(* leave the function unchanged.                                           *)
(***************************************************************************)
CFGPasses == {"Flattening", "BogusControlFlow", "OpaquePredicates"}

C10_ModifiedSignalExact ==
    (lastPass \in CFGPasses /\ ~crashed) =>
        /\ lastPass = "Flattening" => (lastRet <=> Changed(prevF, F) \ {1} # {})
        /\ lastPass # "Flattening" => (lastRet <=> Changed(prevF, F) # {})
        /\ ~lastRet => F = prevF
        /\ Len(prevF) = 1 => (~lastRet /\ F = prevF)

\* BogusControlFlow, run after OpaquePredicates, injected into a block and
\* reported it
C10_Witness ==
    /\ passes = << "OpaquePredicates", "BogusControlFlow" >>
    /\ lastRet
    /\ Changed(prevF, F) # {}
    /\ Len(origF) > 1

(***************************************************************************)
(* Block order.                                                            *)
(***************************************************************************)
\* the ids of the instructions of a block
IdsOf(BB) == {BB[p].id : p \in 1 .. Len(BB)}

\* the instructions of block i of prev that cur still has are in block i
StaysAt(prev, cur, i) ==
    /\ i <= Len(cur)
    /\ \A j \in 1 .. Len(cur) : j # i => IdsOf(prev[i]) \cap IdsOf(cur[j]) = {}

\* the entry block of prev is still the first block of cur
EntryKept(prev, cur) ==
    prev # << >> =>
        /\ cur # << >>
        /\ prev[1] # << >> => IdsOf(prev[1]) \cap IdsOf(cur[1]) # {}

BlocksOnlyAppended(prev, cur) ==
    /\ Len(cur) >= Len(prev)
    /\ EntryKept(prev, cur)
    /\ \A i \in 1 .. Len(prev) : StaysAt(prev, cur, i)

\* C11: after any pass, and so after any sequence of passes, the function's
\* first block is the block that was the entry before, every block that
\* existed keeps its position, and the number of blocks has not decreased.
C11_EntryBlockStable ==
    /\ BlocksOnlyAppended(prevF, F)
    /\ BlocksOnlyAppended(origF, F)

C11_Witness ==
    /\ passes = << "Flattening", "BogusControlFlow" >>
    /\ ~crashed
    /\ Len(F) >= Len(origF) + 2
    /\ F[1] # origF[1]

(***************************************************************************)
(* Flattening run twice.                                                   *)
(***************************************************************************)
\* the dispatcher block and the state variable the first run created
FirstDispatcher == Len(origF) + 1
FirstStateVar == prevF[1][Len(origF[1]) + 1].id

\* the state numbers the dispatcher block d of Fn has a case for
TableOf(Fn, d) ==
    LET sw == getTerminator(Fn[d])
    IN IF sw = 0 \/ Fn[d][sw].op # "switch" THEN {}
       ELSE {Fn[d][sw].cases[k][1] : k \in 1 .. Len(Fn[d][sw].cases)}

\* the values stored to the state variable sv anywhere in Fn
StoredTo(Fn, sv) ==
    {allInsts(Fn)[k].x : k \in {j \in 1 .. Len(allInsts(Fn)) :
        allInsts(Fn)[j].op = "store" /\ allInsts(Fn)[j].y = Reg(sv)}}

StillSwitches(prev, cur, d) ==
    LET sw == getTerminator(cur[d])
        old == getTerminator(prev[d])
    IN /\ sw # 0
       /\ cur[d][sw].op = "switch"
       /\ cur[d][sw].cases = prev[d][old].cases

OneTerminator(BB) ==
    Cardinality({p \in 1 .. Len(BB) : isTerminator(BB[p])}) = 1

\* C12: a second Flattening run on an already flattened function is a no-op
\* or adds a second layer that keeps the first one valid: the first state
\* variable is written only with state numbers of the first dispatcher's
\* table, the first dispatcher still switches over its table, and every
\* block has exactly one terminator.
C12_SecondFlatteningKeepsFirstLayer ==
    (passes = << "Flattening", "Flattening" >> /\ Len(origF) >= 2 /\ ~crashed)
        => \/ F = prevF
           \/ /\ StoredTo(F, FirstStateVar)
                    \subseteq {Const(n) : n \in TableOf(prevF, FirstDispatcher)}
              /\ StillSwitches(prevF, F, FirstDispatcher)
              /\ \A b \in 1 .. Len(F) : OneTerminator(F[b])

(***************************************************************************)
(* Flattening of a function with a block that has no terminator.           *)
(***************************************************************************)
NoTerminator(Fn) ==
    {b \in 2 .. Len(Fn) : getTerminator(Fn[b]) = 0}

\* C13: when a non-entry block has no terminator, Flattening reports a
\* failure (it returns, answering that nothing was modified) and leaves the
\* function as it was: no state variable, no dispatcher, no rewritten block.
C13_FlatteningAllOrNothing ==
    (lastPass = "Flattening" /\ NoTerminator(prevF) # {})
        => /\ ~crashed
           /\ ~lastRet
           /\ F = prevF

(***************************************************************************)
(* Configuration load failure.                                             *)
(***************************************************************************)
EnabledPasses == {p \in PassNames : isPassEnabled(config_, p)}

\* C14: right after loadFromFile has returned false, isPassEnabled is false
\* for every pass name, whatever setValue and loadFromFile calls preceded.
C14_FailedLoadDisablesEveryPass ==
    (lastCall.op = "loadFromFile" /\ ~lastCall.ret) => EnabledPasses = {}

(***************************************************************************)
(* The dispatch table Flattening builds.                                   *)
(***************************************************************************)
\* the state variable the last Flattening run appended to the entry block
NewStateVar == F[1][Len(prevF[1]) + 1]

\* block b ends with a store to the state variable sv and a branch to d
EndsWithDispatch(BB, sv, d) ==
    /\ Len(BB) >= 2
    /\ BB[Len(BB) - 1].op = "store"
    /\ BB[Len(BB) - 1].y = Reg(sv)
    /\ BB[Len(BB)].op = "br"
    /\ BB[Len(BB)].t = d

\* the switch of block d has the cases 1 -> block 2, ..., n-1 -> block n
TableInProgramOrder(Fn, d, n) ==
    LET sw == getTerminator(Fn[d])
    IN /\ sw # 0
       /\ Fn[d][sw].op = "switch"
       /\ Fn[d][sw].cases = [k \in 1 .. n - 1 |-> << k, k + 1 >>]

\* C15: on a function with n >= 2 blocks, Flattening adds exactly one block,
\* the dispatcher; its switch has exactly one case per non-entry block that
\* existed, numbered 1 .. n-1 in program order (no case for 0, none for the
\* dispatcher); and each of those blocks ends with a store to the state
\* variable followed by an unconditional branch to the dispatcher.
C15_DispatchTableWellFormed ==
    (lastPass = "Flattening" /\ ~crashed /\ Len(prevF) >= 2)
        => /\ Len(F) = Len(prevF) + 1
           /\ NewStateVar.op = "alloca"
           /\ TableInProgramOrder(F, Len(prevF) + 1, Len(prevF))
           /\ \A b \in 2 .. Len(prevF) :
                 EndsWithDispatch(F[b], NewStateVar.id, Len(prevF) + 1)

C15_Witness ==
    /\ passes = << "Flattening" >>
    /\ ~crashed
    /\ lastRet
    /\ Len(prevF) >= 4
    /\ Len(F[Len(F)][2].cases) = 3

(***************************************************************************)
(* Reachability of the relocated blocks.                                   *)
(***************************************************************************)
\* the blocks the terminators of block b of Fn branch to
Successors(Fn, b) ==
    UNION {Targets(Fn[b][p]) : p \in {q \in 1 .. Len(Fn[b]) :
                                         isTerminator(Fn[b][q])}}

\* the value the state variable sv holds when block b is left, if the
\* instructions of b that run before its first terminator store one
InitialisedBeforeLeaving(BB, sv) ==
    \E p \in 1 .. Len(BB) :
        /\ BB[p].op = "store"
        /\ BB[p].y = Reg(sv)
        /\ BB[p].x = Const(0)
        /\ \A q \in 1 .. p : ~isTerminator(BB[q])

\* C16: after Flattening the relocated blocks (the non-entry blocks that
\* existed) are entered only from the dispatcher: no other block, the entry
\* included, has an edge to one of them, and the entry block hands control
\* to the dispatcher with the state variable initialised to 0.
C16_RelocatedOnlyThroughDispatcher ==
    (passes = << "Flattening" >> /\ ~crashed /\ Len(prevF) >= 2)
        => /\ \A b \in 1 .. Len(prevF) :
                 Successors(F, b) \cap (2 .. Len(prevF)) = {}
           /\ Successors(F, 1) = {Len(prevF) + 1}
           /\ InitialisedBeforeLeaving(F[1], NewStateVar.id)

(***************************************************************************)
(* The modification report of InstructionSubstitution.                     *)
(***************************************************************************)
\* the arithmetic opcodes that occur in Fn
ArithOpsIn(Fn) ==
    {allInsts(Fn)[k].op : k \in {j \in 1 .. Len(allInsts(Fn)) :
                                    shouldSubstitute(allInsts(Fn)[j])}}

\* C17: InstructionSubstitution returns true only if it changed the
\* function; a function whose only arithmetic instructions are divisions
\* is left as it was and reported as not modified.
C17_SubstitutionReportExact ==
    (lastPass = "InstructionSubstitution" /\ ~crashed)
        => /\ lastRet => F # prevF
           /\ ArithOpsIn(prevF) = {"div"} => (F = prevF /\ ~lastRet)

(***************************************************************************)
(* Termination and extent of the injection passes.                         *)
(***************************************************************************)
\* the blocks of Fn the pass may select: the non-entry blocks that pass the
\* structural test of the pass
EligibleBlocks(pass, Fn) ==
    IF pass = "BogusControlFlow"
    THEN IF isDeclaration(Fn) \/ Len(Fn) < 2 THEN {}
         ELSE {b \in 2 .. Len(Fn) : Len(Fn[b]) >= BogusMinSize}
    ELSE {b \in 2 .. Len(Fn) : Len(Fn[b]) >= OpaqueMinSize}

\* the blocks of cur that branch to a block the pass created
Injected(prev, cur) ==
    {b \in 1 .. Len(cur) : Successors(cur, b) \cap Created(prev, cur) # {}}

\* C18: BogusControlFlow and OpaquePredicates return on every function
\* under every outcome of the draws; they inject only into blocks that
\* existed when the pass started and passed its structural test, never into
\* a block the pass created; so the number of blocks added is at most the
\* number of eligible blocks the pass found.
C18_InjectionBounded ==
    (lastPass \in {"BogusControlFlow", "OpaquePredicates"})
        => /\ ~hung
           /\ Changed(prevF, F) \subseteq EligibleBlocks(lastPass, prevF)
           /\ Injected(prevF, F) \subseteq EligibleBlocks(lastPass, prevF)
           /\ \A j \in Created(prevF, F) :
                 Successors(F, j) \subseteq 1 .. Len(prevF)
           /\ Cardinality(Created(prevF, F))
                 <= Cardinality(EligibleBlocks(lastPass, prevF))

C18_Witness ==
    /\ passes = << "OpaquePredicates", "BogusControlFlow" >>
    /\ ~hung
    /\ Len(F) >= Len(prevF) + 2
    /\ Len(prevF) >= Len(origF) + 2

====
